---- MODULE Spec2Model ----
(***************************************************************************)
(* The TypeScript type productions of rslint_parser                        *)
(* (crates/rslint_parser/src/syntax/typescript.rs) as a state machine.     *)
(*                                                                         *)
(* The parser state is the token cursor (pos), the event log (events) and  *)
(* the diagnostic list (diags).  The recursive descent is run on an        *)
(* explicit call stack: one frame per production call, one action per      *)
(* straight-line block of a production between two calls of productions.   *)
(* The Parser / Marker / CompletedMarker API, the recovery engine and the   *)
(* expression helpers literal() and template() are not part of             *)
(* typescript.rs; they are modelled from the design document.              *)
(***************************************************************************)
EXTENDS Integers, Sequences, FiniteSets, TLC

VARIABLES tokens, pos, events, diags, mops, stack, ret, status, entry, last

vars == <<tokens, pos, events, diags, mops, stack, ret, status, entry, last>>

(***************************************************************************)
(* Bounds of the model.                                                    *)
(***************************************************************************)
\* longest token stream
MaxLen == 3
\* tokens the enclosing grammar may have consumed before it calls a production
MaxStart == 1
\* iterations of the while p.at(T![.]) loop that are followed
MaxIter == 2

(***************************************************************************)
(* Tokens.  A token is its kind, its raw text and the line-break-before    *)
(* flag.  The alphabet has one token for every way the productions tell    *)
(* tokens apart.                                                           *)
(***************************************************************************)
Tok(k, s, n) == [kind |-> k, src |-> s, nl |-> n]

EOFTok == Tok("EOF", "", FALSE)

Alphabet ==
    { Tok("ident", "Foo", FALSE), Tok("ident", "string", FALSE),
      Tok("ident", "asserts", FALSE), Tok("ident", "is", FALSE),
      Tok("ident", "public", FALSE),
      Tok("void", "void", FALSE), Tok("yield", "yield", FALSE),
      Tok(".", ".", FALSE), Tok("this", "this", FALSE),
      Tok("-", "-", FALSE), Tok("NUMBER", "5", FALSE),
      Tok("BACKTICK", "bq", FALSE),
      Tok("(", "(", FALSE), Tok("[", "[", FALSE),
      Tok("<", "<", FALSE), Tok("<", "<", TRUE) }

Streams == UNION { [1..n -> Alphabet] : n \in 0..MaxLen }

\* SyntaxKind::is_keyword
KeywordKinds ==
    { "void", "yield", "null", "await", "break", "this", "typeof", "import",
      "TRUE_KW", "FALSE_KW" }

IsKeyword(k) == k \in KeywordKinds

(***************************************************************************)
(* Token sets.                                                             *)
(***************************************************************************)
BASE_TS_RECOVERY_SET == { "void", "ident", "await", "null", "break", "[" }

\* Option<TokenSet>
NoSet == [some |-> FALSE, set |-> {}]

SomeSet(s) == [some |-> TRUE, set |-> s]

UnwrapOr(o, d) == IF o.some THEN o.set ELSE d

(***************************************************************************)
(* The parser value q = [pos, events, diags, mops] and the Parser API on   *)
(* it.  mops is the history of marker operations (the life of the Marker   *)
(* handles): <<"open", m>>, <<"close", m>>, <<"abandon", m>>, where m is   *)
(* the index of the marker's StartNode in the event log.                   *)
(***************************************************************************)
P == [pos |-> pos, events |-> events, diags |-> diags, mops |-> mops]

SetP(q) ==
    /\ pos' = q.pos
    /\ events' = q.events
    /\ diags' = q.diags
    /\ mops' = q.mops

Nth(q, n) == IF q.pos + n + 1 <= Len(tokens) THEN tokens[q.pos + n + 1] ELSE EOFTok

Cur(q) == Nth(q, 0)

CurSrc(q) == Cur(q).src

NthSrc(q, n) == Nth(q, n).src

At(q, k) == Cur(q).kind = k

NthAt(q, n, k) == Nth(q, n).kind = k

HasLinebreakBeforeN(q, n) == Nth(q, n).nl

AtTs(q, set) == Cur(q).kind \in set

StartEv == [ev |-> "Start", kind |-> "TOMBSTONE", src |-> "", fwd |-> 0]

FinishEv(k) == [ev |-> "Finish", kind |-> k, src |-> "", fwd |-> 0]

TokenEv(k, s) == [ev |-> "Token", kind |-> k, src |-> s, fwd |-> 0]

ErrorEv(n) == [ev |-> "Error", kind |-> "", src |-> "", fwd |-> n]

\* the marker p.start() is about to hand out
NewMarker(q) == Len(q.events) + 1

PStart(q) ==
    [q EXCEPT !.events = Append(@, StartEv),
              !.mops = Append(@, <<"open", NewMarker(q)>>)]

Complete(q, m, k) ==
    [q EXCEPT !.events = Append([@ EXCEPT ![m].kind = k], FinishEv(k)),
              !.mops = Append(@, <<"close", m>>)]

\* the StartNode is retracted: its record stays in the log as a tombstone
Abandon(q, m) ==
    [q EXCEPT !.events = [@ EXCEPT ![m].ev = "Tombstone"],
              !.mops = Append(@, <<"abandon", m>>)]

Precede(q, cm) ==
    [q EXCEPT !.events = Append([@ EXCEPT ![cm].fwd = NewMarker(q)], StartEv),
              !.mops = Append(@, <<"open", NewMarker(q)>>)]

DoBump(q, k) ==
    IF q.pos < Len(tokens)
    THEN [q EXCEPT !.events = Append(@, TokenEv(k, Cur(q).src)),
                   !.pos = @ + 1]
    ELSE q

BumpAny(q) == DoBump(q, Cur(q).kind)

\* variant: the remapped token is logged with the text of its new kind
BumpRemap_KindText(q, k) ==
    IF q.pos < Len(tokens)
    THEN [q EXCEPT !.events = Append(@, TokenEv(k, k)), !.pos = @ + 1]
    ELSE q

BumpRemap(q, k) == DoBump(q, k)

Error(q, msg) ==
    [q EXCEPT !.diags = Append(@, msg),
              !.events = Append(@, ErrorEv(Len(q.diags) + 1))]

Expect(q, k) == IF At(q, k) THEN BumpAny(q) ELSE Error(q, "expected " \o k)

RECURSIVE Resync(_, _)
Resync(q, set) ==
    IF AtTs(q, set) \/ At(q, "EOF")
    THEN q
    ELSE Resync(Complete(BumpAny(PStart(q)), NewMarker(q), "ERROR"), set)

ErrRecover(q, msg, set) == Resync(Error(q, msg), set)

(***************************************************************************)
(* Expression helpers used by the type productions (syntax/expr.rs).       *)
(***************************************************************************)
LiteralKinds == { "NUMBER", "STRING", "TRUE_KW", "FALSE_KW", "REGEX" }

\* literal(p): the literal token under a LITERAL node
Literal(q) == Complete(BumpAny(PStart(q)), NewMarker(q), "LITERAL")

RECURSIVE TemplateChunks(_)
TemplateChunks(q) ==
    IF At(q, "TEMPLATE_CHUNK") THEN TemplateChunks(BumpAny(q)) ELSE q

\* template(p, None): the opening backtick, the chunks, the closing backtick
Template(q) ==
    LET q1 == TemplateChunks(Expect(PStart(q), "BACKTICK"))
        q2 == IF At(q1, "BACKTICK") THEN BumpAny(q1) ELSE q1
    IN  Complete(q2, NewMarker(q), "TEMPLATE")

\* parsed.elements(): the interpolated elements of the template at cm
TemplateElements(q, cm) ==
    { i \in cm..Len(q.events) :
        q.events[i].ev = "Start" /\ q.events[i].kind = "TEMPLATE_ELEMENT" }

RECURSIVE Errors(_, _, _)
Errors(q, msg, n) == IF n = 0 THEN q ELSE Errors(Error(q, msg), msg, n - 1)

(***************************************************************************)
(* The call stack.  A frame is one production call: its position (pc),     *)
(* its arguments (set, allow), its locals (m, lhs) and, for the            *)
(* properties, what the parser looked like when it was called.  last is    *)
(* the call that returned most recently: its frame, what it returned and   *)
(* what the parser looked like when it returned.                           *)
(***************************************************************************)
Frame(fn, set, allow, q) ==
    [fn |-> fn, pc |-> "entry", set |-> set, allow |-> allow,
     m |-> 0, lhs |-> 0, iters |-> 0, loopPos |-> 0,
     pos0 |-> q.pos, events0 |-> Len(q.events), diags0 |-> Len(q.diags),
     mops0 |-> Len(q.mops)]

\* Option<CompletedMarker>
None == [some |-> FALSE, cm |-> 0]

Some(cm) == [some |-> TRUE, cm |-> cm]

Top == stack[Len(stack)]

Running(fn, pc) ==
    /\ status = "running"
    /\ Len(stack) > 0
    /\ Top.fn = fn
    /\ Top.pc = pc

\* the running production calls callee and goes on at its own frame self
CallFrom(self, callee, q) ==
    /\ stack' = Append([stack EXCEPT ![Len(stack)] = self], callee)
    /\ SetP(q)
    /\ UNCHANGED <<tokens, ret, status, entry, last>>

\* the running production stays in its frame
Goto(self, q) ==
    /\ stack' = [stack EXCEPT ![Len(stack)] = self]
    /\ SetP(q)
    /\ UNCHANGED <<tokens, ret, status, entry, last>>

\* the running production returns r to its caller
Return(q, r) ==
    /\ stack' = SubSeq(stack, 1, Len(stack) - 1)
    /\ ret' = r
    /\ status' = IF Len(stack) = 1 THEN "returned" ELSE "running"
    /\ last' = [frame |-> Top, ret |-> r, pos1 |-> q.pos,
                events1 |-> Len(q.events), diags1 |-> Len(q.diags),
                mops1 |-> Len(q.mops)]
    /\ SetP(q)
    /\ UNCHANGED <<tokens, entry>>

\* unimplemented!() and todo!(): the thread panics
Panic(q) ==
    /\ status' = "panic"
    /\ SetP(q)
    /\ UNCHANGED <<tokens, stack, ret, entry, last>>

(***************************************************************************)
(* ts_type                                                                 *)
(***************************************************************************)
\* unimplemented!()
TsType ==
    /\ Running("ts_type", "entry")
    /\ Panic(P)

(***************************************************************************)
(* ts_non_array_type                                                       *)
(***************************************************************************)
\* the first arm of the match on p.cur()
IdentClassKinds == { "ident", "void", "yield", "null", "await", "break" }

\* variant: the arms of string and symbol give each other's kind
PrimitiveKind_Swapped(src) ==
    CASE src = "void" -> "TS_VOID"
      [] src = "null" -> "TS_NULL"
      [] src = "any" -> "TS_ANY"
      [] src = "boolean" -> "TS_BOOLEAN"
      [] src = "bigint" -> "TS_BIGINT"
      [] src = "never" -> "TS_NEVER"
      [] src = "number" -> "TS_NUMBER"
      [] src = "object" -> "TS_OBJECT"
      [] src = "string" -> "TS_SYMBOL"
      [] src = "symbol" -> "TS_STRING"
      [] src = "unknown" -> "TS_UNKNOWN"
      [] src = "undefined" -> "TS_UNDEFINED"
      [] OTHER -> "ERROR"

\* let kind = match p.cur_src() { ... }
PrimitiveKind(src) ==
    CASE src = "void" -> "TS_VOID"
      [] src = "null" -> "TS_NULL"
      [] src = "any" -> "TS_ANY"
      [] src = "boolean" -> "TS_BOOLEAN"
      [] src = "bigint" -> "TS_BIGINT"
      [] src = "never" -> "TS_NEVER"
      [] src = "number" -> "TS_NUMBER"
      [] src = "object" -> "TS_OBJECT"
      [] src = "string" -> "TS_STRING"
      [] src = "symbol" -> "TS_SYMBOL"
      [] src = "unknown" -> "TS_UNKNOWN"
      [] src = "undefined" -> "TS_UNDEFINED"
      [] OTHER -> "ERROR"

\* p.cur_src() == "asserts" && p.nth_at(1, T![this])
IsAssertsThis(q) == CurSrc(q) = "asserts" /\ NthAt(q, 1, "this")

\* kind != ERROR && !p.nth_at(1, T![.])
IsPrimitiveLeaf(q) == PrimitiveKind(CurSrc(q)) # "ERROR" /\ ~NthAt(q, 1, ".")

\* the arms that are todo!()
TodoKinds == { "import", "typeof", "{", "[" }

\* the kinds some arm other than the default one matches
DispatchedKinds ==
    IdentClassKinds \cup LiteralKinds \cup TodoKinds
        \cup { "BACKTICK", "-", "this", "(" }

\* variant: the dot, which no arm matches, is a member too
ExpectedTypeRecoverySet_WithDot ==
    BASE_TS_RECOVERY_SET \cup
        { "typeof", "{", "[", "(", "this", "import", "-", "NUMBER", "STRING",
          "TRUE_KW", "FALSE_KW", "REGEX", "BACKTICK", "." }

\* the set the default arm hands to err_recover
ExpectedTypeRecoverySet ==
    BASE_TS_RECOVERY_SET \cup
        { "typeof", "{", "[", "(", "this", "import", "-", "NUMBER", "STRING",
          "TRUE_KW", "FALSE_KW", "REGEX", "BACKTICK" }

NonArray_AssertsThis ==
    /\ Running("ts_non_array_type", "entry")
    /\ Cur(P).kind \in IdentClassKinds
    /\ IsAssertsThis(P)
    /\ LET q == BumpAny(P)
       IN  CallFrom([Top EXCEPT !.pc = "tail"],
                    Frame("ts_this_predicate", NoSet, FALSE, q), q)

NonArray_Primitive ==
    /\ Running("ts_non_array_type", "entry")
    /\ Cur(P).kind \in IdentClassKinds
    /\ ~IsAssertsThis(P)
    /\ IsPrimitiveLeaf(P)
    /\ LET m == NewMarker(P)
       IN  Return(Complete(BumpAny(PStart(P)), m, PrimitiveKind(CurSrc(P))),
                  Some(m))

NonArray_TypeRef ==
    /\ Running("ts_non_array_type", "entry")
    /\ Cur(P).kind \in IdentClassKinds
    /\ ~IsAssertsThis(P)
    /\ ~IsPrimitiveLeaf(P)
    /\ CallFrom([Top EXCEPT !.pc = "tail"], Frame("ts_type_ref", NoSet, FALSE, P), P)

NonArray_Literal ==
    /\ Running("ts_non_array_type", "entry")
    /\ Cur(P).kind \in LiteralKinds
    /\ LET lit == NewMarker(P)
           q1 == Literal(P)
           m == NewMarker(q1)
       IN  Return(Complete(Precede(q1, lit), m, "TS_LITERAL"), Some(m))

NonArray_Template ==
    /\ Running("ts_non_array_type", "entry")
    /\ At(P, "BACKTICK")
    /\ LET complete == NewMarker(P)
           q1 == Template(P)
           q2 == Errors(q1,
                   "template literals used as TypeScript types may not contain expressions",
                   Cardinality(TemplateElements(q1, complete)))
           m == NewMarker(q2)
       IN  Return(Complete(Precede(q2, complete), m, "TS_TEMPLATE"), Some(m))

\* variant: a missing NUMBER goes to err_recover instead of p.expect
NonArray_Minus_Recovers ==
    /\ Running("ts_non_array_type", "entry")
    /\ At(P, "-")
    /\ LET m == NewMarker(P)
           q1 == BumpAny(PStart(P))
           q2 == IF At(q1, "NUMBER")
                 THEN Complete(BumpAny(PStart(q1)), NewMarker(q1), "LITERAL")
                 ELSE ErrRecover(q1, "expected NUMBER", BASE_TS_RECOVERY_SET)
       IN  Return(Complete(q2, m, "TS_LITERAL"), Some(m))

\* variant: m is completed before _m
NonArray_Minus_OuterFirst ==
    /\ Running("ts_non_array_type", "entry")
    /\ At(P, "-")
    /\ LET m == NewMarker(P)
           q1 == BumpAny(PStart(P))
           q2 == IF At(q1, "NUMBER")
                 THEN Complete(Complete(BumpAny(PStart(q1)), m, "TS_LITERAL"),
                               NewMarker(q1), "LITERAL")
                 ELSE Complete(Expect(q1, "NUMBER"), m, "TS_LITERAL")
       IN  Return(q2, Some(m))

NonArray_Minus ==
    /\ Running("ts_non_array_type", "entry")
    /\ At(P, "-")
    /\ LET m == NewMarker(P)
           q1 == BumpAny(PStart(P))
           q2 == IF At(q1, "NUMBER")
                 THEN Complete(BumpAny(PStart(q1)), NewMarker(q1), "LITERAL")
                 ELSE Expect(q1, "NUMBER")
       IN  Return(Complete(q2, m, "TS_LITERAL"), Some(m))

\* T![import], T![typeof], T!['{'], T!['[']: todo!()
NonArray_Todo ==
    /\ Running("ts_non_array_type", "entry")
    /\ Cur(P).kind \in TodoKinds
    /\ Panic(P)

\* variant: the text tested is that of the current token
ThisIsPredicate_Cur(q) == CurSrc(q) = "is"

\* p.nth_src(1) == "is"
ThisIsPredicate(q) == NthSrc(q, 1) = "is"

NonArray_ThisPredicate ==
    /\ Running("ts_non_array_type", "entry")
    /\ At(P, "this")
    /\ ThisIsPredicate(P)
    /\ CallFrom([Top EXCEPT !.pc = "tail"],
                Frame("ts_this_predicate", NoSet, FALSE, P), P)

NonArray_This ==
    /\ Running("ts_non_array_type", "entry")
    /\ At(P, "this")
    /\ ~ThisIsPredicate(P)
    /\ LET m == NewMarker(P)
       IN  Return(Complete(BumpAny(PStart(P)), m, "TS_THIS"), Some(m))

\* T!['(']: the code after the call of ts_type (p.expect(T![')']) and
\* m.complete(p, TS_PAREN)) is never reached, ts_type does not return
NonArray_Paren ==
    /\ Running("ts_non_array_type", "entry")
    /\ At(P, "(")
    /\ LET m == NewMarker(P)
           q == BumpAny(PStart(P))
       IN  CallFrom([Top EXCEPT !.pc = "paren", !.m = m],
                    Frame("ts_type", NoSet, FALSE, q), q)

NonArray_Default ==
    /\ Running("ts_non_array_type", "entry")
    /\ Cur(P).kind \notin DispatchedKinds
    /\ Return(ErrRecover(P, "expected a type", ExpectedTypeRecoverySet), None)

\* return ts_this_predicate(p) and the tail expression ts_type_ref(p, None)
NonArray_Tail ==
    /\ Running("ts_non_array_type", "tail")
    /\ Return(P, ret)

(***************************************************************************)
(* ts_this_predicate                                                       *)
(***************************************************************************)
\* if p.cur_src() == "asserts" { p.bump_any(); advanced = true; }
ThisPredAsserts(q) ==
    IF CurSrc(q) = "asserts"
    THEN [q |-> BumpAny(q), advanced |-> TRUE]
    ELSE [q |-> q, advanced |-> FALSE]

\* variant: p.eat(T![this]), which records nothing when this is absent
ThisPredThis_Eat(r) ==
    [q |-> IF At(r.q, "this") THEN BumpAny(r.q) ELSE r.q,
     advanced |-> r.advanced \/ At(r.q, "this")]

\* if p.expect(T![this]) { advanced = true; }
ThisPredThis(r) ==
    [q |-> Expect(r.q, "this"), advanced |-> r.advanced \/ At(r.q, "this")]

\* the parser and the flag when the test of "is" is reached
ThisPredHead(q) == ThisPredThis(ThisPredAsserts(PStart(q)))

\* "is" follows: p.bump_any(); ts_type(p), which does not return
ThisPredicate_Is ==
    /\ Running("ts_this_predicate", "entry")
    /\ CurSrc(ThisPredHead(P).q) = "is"
    /\ LET q == BumpAny(ThisPredHead(P).q)
       IN  CallFrom([Top EXCEPT !.pc = "is", !.m = NewMarker(P)],
                    Frame("ts_type", NoSet, FALSE, q), q)

ThisPredicate_NoIs ==
    /\ Running("ts_this_predicate", "entry")
    /\ CurSrc(ThisPredHead(P).q) # "is"
    /\ LET m == NewMarker(P)
           h == ThisPredHead(P)
       IN  IF ~h.advanced
           THEN Return(Abandon(h.q, m), None)
           ELSE Return(Complete(h.q, m, "TS_PREDICATE"), Some(m))

(***************************************************************************)
(* maybe_eat_incorrect_modifier and ts_type_ref                            *)
(***************************************************************************)
Modifiers == { "public", "private", "protected", "readonly" }

MaybeEatIncorrectModifier(q) ==
    IF CurSrc(q) \in Modifiers
    THEN [q |-> Complete(BumpAny(PStart(q)), NewMarker(q), "ERROR"),
          r |-> Some(NewMarker(q))]
    ELSE [q |-> q, r |-> None]

TypeRef_Entry ==
    /\ Running("ts_type_ref", "entry")
    /\ LET m == NewMarker(P)
           e == MaybeEatIncorrectModifier(PStart(P))
           q == IF e.r.some
                THEN Error(e.q,
                       "a parameter property is only allowed in a constructor implementation")
                ELSE e.q
       IN  CallFrom([Top EXCEPT !.pc = "entity", !.m = m],
                    Frame("ts_entity_name", Top.set, TRUE, q), q)

\* ts_entity_name(p, recovery_set, true)? with no node
TypeRef_Propagate ==
    /\ Running("ts_type_ref", "entity")
    /\ ~ret.some
    /\ Return(P, None)

\* !p.has_linebreak_before_n(0) && p.at(T![<])
AtTypeArgs(q) == ~HasLinebreakBeforeN(q, 0) /\ At(q, "<")

\* todo!("type args")
TypeRef_TypeArgs ==
    /\ Running("ts_type_ref", "entity")
    /\ ret.some
    /\ AtTypeArgs(P)
    /\ Panic(P)

TypeRef_Complete ==
    /\ Running("ts_type_ref", "entity")
    /\ ret.some
    /\ ~AtTypeArgs(P)
    /\ Return(Complete(P, Top.m, "TS_TYPE_REF"), Some(Top.m))

(***************************************************************************)
(* ts_entity_name                                                          *)
(***************************************************************************)
EntityName_Entry ==
    /\ Running("ts_entity_name", "entry")
    /\ CallFrom([Top EXCEPT !.pc = "init"],
                Frame("ts_type_name", Top.set, FALSE, P), P)

\* ts_type_name(p, recovery_set.clone(), false)? with no node
EntityName_Propagate ==
    /\ Running("ts_entity_name", "init")
    /\ ~ret.some
    /\ Return(P, None)

\* recovery_set.into().unwrap_or(BASE_TS_RECOVERY_SET).union(token_set![T![.]])
EntityNameSet(set) == UnwrapOr(set, BASE_TS_RECOVERY_SET) \cup { "." }

EntityName_Init ==
    /\ Running("ts_entity_name", "init")
    /\ ret.some
    /\ Goto([Top EXCEPT !.pc = "loop", !.lhs = ret.cm,
                        !.set = SomeSet(EntityNameSet(Top.set))], P)

\* one pass through the body of while p.at(T![.]), up to the call
EntityName_Loop ==
    /\ Running("ts_entity_name", "loop")
    /\ At(P, ".")
    /\ Top.iters < MaxIter
    /\ LET q == Precede(P, Top.lhs)
       IN  CallFrom([Top EXCEPT !.pc = "segment", !.m = NewMarker(P),
                                !.iters = @ + 1, !.loopPos = pos],
                    Frame("ts_type_name", Top.set, Top.allow, q), q)

\* lhs = m.complete(p, TS_QUALIFIED_PATH)
EntityName_Segment ==
    /\ Running("ts_entity_name", "segment")
    /\ Goto([Top EXCEPT !.pc = "loop", !.lhs = Top.m],
            Complete(P, Top.m, "TS_QUALIFIED_PATH"))

EntityName_Exit ==
    /\ Running("ts_entity_name", "loop")
    /\ ~At(P, ".")
    /\ Return(P, Some(Top.lhs))

(***************************************************************************)
(* ts_type_name                                                            *)
(***************************************************************************)
\* p.at(T![ident]) || (p.cur().is_keyword() && allow_reserved)
TypeNameAccepts(q, allow_reserved) ==
    At(q, "ident") \/ (IsKeyword(Cur(q).kind) /\ allow_reserved)

TypeNameMsg(q) == "expected a TypeScript type name, but instead found " \o CurSrc(q)

TypeName_Accept ==
    /\ Running("ts_type_name", "entry")
    /\ TypeNameAccepts(P, Top.allow)
    /\ LET m == NewMarker(P)
       IN  Return(Complete(BumpRemap(PStart(P), "ident"), m, "TS_TYPE_NAME"),
                  Some(m))

\* variant: the diagnostic is recorded with p.error, recovery is not invoked
TypeName_Recover_ErrorOnly ==
    /\ Running("ts_type_name", "entry")
    /\ ~TypeNameAccepts(P, Top.allow)
    /\ Return(Error(P, TypeNameMsg(P)), None)

\* variant: the set of the caller is dropped, recovery runs on the base set
TypeName_Recover_BaseSet ==
    /\ Running("ts_type_name", "entry")
    /\ ~TypeNameAccepts(P, Top.allow)
    /\ Return(ErrRecover(P, TypeNameMsg(P), BASE_TS_RECOVERY_SET), None)

TypeName_Recover ==
    /\ Running("ts_type_name", "entry")
    /\ ~TypeNameAccepts(P, Top.allow)
    /\ Return(ErrRecover(P, TypeNameMsg(P), UnwrapOr(Top.set, BASE_TS_RECOVERY_SET)),
              None)

(***************************************************************************)
(* The enclosing grammar: it consumes tokens of its own and calls one of   *)
(* the public productions with arguments of its choice.                    *)
(***************************************************************************)
RecoveryArgs == { NoSet, SomeSet({ "<" }) }

Entries ==
    [fn : { "ts_type", "ts_non_array_type", "ts_this_predicate" },
     set : { NoSet }, allow : { FALSE }]
    \cup [fn : { "ts_type_ref" }, set : RecoveryArgs, allow : { FALSE }]
    \cup [fn : { "ts_entity_name" }, set : RecoveryArgs, allow : { TRUE }]
    \cup [fn : { "ts_type_name" }, set : RecoveryArgs, allow : BOOLEAN]

NoEntry == [fn |-> "", set |-> NoSet, allow |-> FALSE]

NoLast ==
    [frame |-> Frame("", NoSet, FALSE, [pos |-> 0, events |-> <<>>,
                                        diags |-> <<>>, mops |-> <<>>]),
     ret |-> None, pos1 |-> 0, events1 |-> 0, diags1 |-> 0, mops1 |-> 0]

Init ==
    /\ tokens \in Streams
    /\ pos = 0
    /\ events = <<>>
    /\ diags = <<>>
    /\ mops = <<>>
    /\ stack = <<>>
    /\ ret = None
    /\ status = "idle"
    /\ entry = NoEntry
    /\ last = NoLast

DriverBump ==
    /\ status = "idle"
    /\ pos < MaxStart
    /\ pos < Len(tokens)
    /\ SetP(BumpAny(P))
    /\ UNCHANGED <<tokens, stack, ret, status, entry, last>>

DriverCall ==
    /\ status = "idle"
    /\ \E e \in Entries :
        /\ stack' = <<Frame(e.fn, e.set, e.allow, P)>>
        /\ entry' = e
    /\ status' = "running"
    /\ UNCHANGED <<tokens, pos, events, diags, mops, ret, last>>

Next ==
    \/ DriverBump
    \/ DriverCall
    \/ TsType
    \/ NonArray_AssertsThis
    \/ NonArray_Primitive
    \/ NonArray_TypeRef
    \/ NonArray_Literal
    \/ NonArray_Template
    \/ NonArray_Minus
    \/ NonArray_Todo
    \/ NonArray_ThisPredicate
    \/ NonArray_This
    \/ NonArray_Paren
    \/ NonArray_Default
    \/ NonArray_Tail
    \/ ThisPredicate_Is
    \/ ThisPredicate_NoIs
    \/ TypeRef_Entry
    \/ TypeRef_Propagate
    \/ TypeRef_TypeArgs
    \/ TypeRef_Complete
    \/ EntityName_Entry
    \/ EntityName_Propagate
    \/ EntityName_Init
    \/ EntityName_Loop
    \/ EntityName_Segment
    \/ EntityName_Exit
    \/ TypeName_Accept
    \/ TypeName_Recover

Spec == Init /\ [][Next]_vars

(***************************************************************************)
(* Vocabulary of the properties.                                           *)
(***************************************************************************)
\* the input token at cursor position i (0-based), EOF past the end
TokAt(i) == IF i + 1 <= Len(tokens) THEN tokens[i + 1] ELSE EOFTok

IsTokenEv(e) == e.ev = "Token"

\* the Token events of the log, in order
TokenEvents == SelectSeq(events, IsTokenEv)

\* the index in the log of the Token event of the input token at position i
TokenEvIdx(i) ==
    CHOOSE j \in 1..Len(events) :
        /\ events[j].ev = "Token"
        /\ Cardinality({ k \in 1..j : events[k].ev = "Token" }) = i + 1

\* the production fn has returned, and no call has returned since
Returned(fn) == last.frame.fn = fn

\* the diagnostics recorded during the call that returned last
LastDiags == SubSeq(diags, last.frame.diags0 + 1, last.diags1)

\* the marker operations of history h after its first n
OpsSince(h, n) == { i \in (n + 1)..Len(h) : TRUE }

Opens(h, from, m) == { i \in OpsSince(h, from) : h[i] = <<"open", m>> }

Consumes(h, from, m) ==
    { i \in OpsSince(h, from) : h[i] = <<"close", m>> \/ h[i] = <<"abandon", m>> }

\* the operation that opened the marker consumed by operation i of h
OpenOf(h, i) ==
    CHOOSE j \in 1..(i - 1) :
        /\ h[j] = <<"open", h[i][2]>>
        /\ \A k \in (j + 1)..(i - 1) : h[k] # <<"open", h[i][2]>>

(***************************************************************************)
(* C1  Totality.  Every pass through the body of the while p.at(T![.])     *)
(* loop of ts_entity_name consumes at least one token: when the loop test  *)
(* is reached again the cursor is past where the pass began, so the loop   *)
(* cannot go on for ever at the same dot.                                  *)
(***************************************************************************)
C1_LoopProgress ==
    \A i \in 1..Len(stack) :
        (stack[i].fn = "ts_entity_name" /\ stack[i].pc = "loop"
            /\ stack[i].iters > 0)
        => pos > stack[i].loopPos

(***************************************************************************)
(* C2  No production aborts the parse: no reachable state is a panic.      *)
(***************************************************************************)
C2_NeverPanics == status # "panic"

(***************************************************************************)
(* C3  Marker pairing.  When a production returns, every marker opened     *)
(* during the call has been completed or abandoned exactly once.           *)
(***************************************************************************)
C3_MarkersPaired ==
    \A i \in OpsSince(mops, last.frame.mops0) :
        (i <= last.mops1 /\ mops[i][1] = "open")
        => /\ Cardinality(Consumes(SubSeq(mops, 1, last.mops1),
                                   last.frame.mops0, mops[i][2]))
              = Cardinality(Opens(SubSeq(mops, 1, last.mops1),
                                  last.frame.mops0, mops[i][2]))
           /\ \E j \in (i + 1)..last.mops1 :
                mops[j][1] # "open" /\ mops[j][2] = mops[i][2]

(***************************************************************************)
(* C4  Marker nesting.  A marker is completed or abandoned only when every *)
(* marker opened after it has been completed or abandoned: the open        *)
(* markers form a stack.                                                   *)
(***************************************************************************)
C4_MarkersNest ==
    \A i \in 1..Len(mops) :
        mops[i][1] # "open"
        => /\ Opens(SubSeq(mops, 1, i - 1), 0, mops[i][2]) # {}
           /\ \A k \in (OpenOf(mops, i) + 1)..(i - 1) :
                mops[k][1] = "open"
                => \E c \in (k + 1)..(i - 1) :
                     mops[c][1] # "open" /\ mops[c][2] = mops[k][2]

\* a marker was closed inside another one, which was closed after it
C4_Witness ==
    /\ status = "returned"
    /\ \E a, b, c, d \in 1..Len(mops) :
        /\ a < b /\ b < c /\ c < d
        /\ mops[a][1] = "open" /\ mops[b][1] = "open"
        /\ mops[a][2] # mops[b][2]
        /\ mops[c] = <<"close", mops[b][2]>>
        /\ mops[d] = <<"close", mops[a][2]>>

(***************************************************************************)
(* C5  Losslessness.  The Token events of the log, in order, are the input *)
(* tokens before the cursor, each once, with their text.                   *)
(***************************************************************************)
C5_Lossless ==
    /\ Len(TokenEvents) = pos
    /\ \A i \in 1..pos : TokenEvents[i].src = tokens[i].src

\* a modifier was eaten and recovery consumed a token, both under ERROR nodes
C5_Witness ==
    /\ status = "returned"
    /\ entry.fn = "ts_type_ref"
    /\ pos >= 2
    /\ Len(diags) = 2
    /\ diags[1] = "a parameter property is only allowed in a constructor implementation"
    /\ Cardinality({ i \in 1..Len(events) :
                        events[i].ev = "Finish" /\ events[i].kind = "ERROR" }) >= 2

(***************************************************************************)
(* C6  Progress under recovery.  The two places that invoke the recovery   *)
(* engine are the default arm of ts_non_array_type and the failure path of *)
(* ts_type_name; both return no node right after it.                       *)
(***************************************************************************)
\* the call that returned last went through err_recover
InvokedRecovery ==
    /\ ~last.ret.some
    /\ \/ Returned("ts_type_name")
       \/ /\ Returned("ts_non_array_type")
          /\ TokAt(last.frame.pos0).kind \notin DispatchedKinds

\* the recovery set that call passed
PassedSet ==
    IF Returned("ts_type_name")
    THEN UnwrapOr(last.frame.set, BASE_TS_RECOVERY_SET)
    ELSE ExpectedTypeRecoverySet

\* C6 as claimed: recovery advances the cursor by at least one token unless
\* the current token is a member of the recovery set passed to it.
C6_RecoveryProgress ==
    (InvokedRecovery /\ TokAt(last.frame.pos0).kind \notin PassedSet)
    => last.pos1 > last.frame.pos0

\* C6 as amended: recovery advances the cursor by at least one token unless
\* the current token is a member of the recovery set passed to it or the
\* cursor is at the end of the input.
C6_RecoveryProgressOrEof ==
    (InvokedRecovery /\ TokAt(last.frame.pos0).kind \notin PassedSet
        /\ TokAt(last.frame.pos0).kind # "EOF")
    => last.pos1 > last.frame.pos0

\* ts_type_name met a token outside its set and recovery consumed it
C6_Witness ==
    /\ Returned("ts_type_name")
    /\ InvokedRecovery
    /\ TokAt(last.frame.pos0).kind \notin PassedSet \cup { "EOF" }
    /\ last.pos1 > last.frame.pos0
    /\ events[Len(events)] = FinishEv("ERROR")

(***************************************************************************)
(* C7  Qualified paths.  On n+1 identifiers separated by n dots (n >= 1)   *)
(* ts_entity_name consumes the 2n+1 tokens, records no diagnostic and       *)
(* builds n TS_QUALIFIED_PATH nodes, each one preceding the node completed  *)
(* before it.                                                              *)
(***************************************************************************)
IsQualifiedPath(n) ==
    /\ Len(tokens) = 2 * n + 1
    /\ \A i \in 1..Len(tokens) :
        tokens[i].kind = IF i % 2 = 1 THEN "ident" ELSE "."

QualifiedPathNodes ==
    { i \in 1..Len(events) :
        events[i].ev = "Start" /\ events[i].kind = "TS_QUALIFIED_PATH" }

C7_QualifiedPath ==
    \A n \in 1..MaxLen :
        (entry.fn = "ts_entity_name" /\ IsQualifiedPath(n)
            /\ (IF stack # <<>> THEN stack[1].pos0 ELSE last.frame.pos0) = 0)
        => /\ diags = <<>>
           /\ status = "returned"
              => /\ pos = 2 * n + 1
                 /\ last.ret.some
                 /\ Cardinality(QualifiedPathNodes) = n
                 /\ \A i \in QualifiedPathNodes :
                      \E j \in 1..(i - 1) :
                        /\ events[j].fwd = i
                        /\ events[j].kind \in { "TS_TYPE_NAME", "TS_QUALIFIED_PATH" }

(***************************************************************************)
(* C8  Asserts-this predicate.  Called at a token with text asserts that   *)
(* is followed by this, ts_non_array_type returns a TS_PREDICATE node      *)
(* whose StartNode is before the Token event of asserts in the log, and no *)
(* diagnostic is recorded.                                                 *)
(***************************************************************************)
C8_AssertsInsidePredicate ==
    (/\ Returned("ts_non_array_type")
     /\ TokAt(last.frame.pos0).kind \in IdentClassKinds
     /\ TokAt(last.frame.pos0).src = "asserts"
     /\ TokAt(last.frame.pos0 + 1).kind = "this")
    => /\ last.ret.some
       /\ events[last.ret.cm].kind = "TS_PREDICATE"
       /\ last.ret.cm < TokenEvIdx(last.frame.pos0)
       /\ LastDiags = <<>>

(***************************************************************************)
(* C9  Primitive type leaf.  At an identifier-class token whose text is a  *)
(* primitive type keyword and that is not followed by a dot,               *)
(* ts_non_array_type consumes that one token, returns a leaf node of the   *)
(* matching primitive kind and records no diagnostic.                      *)
(***************************************************************************)
PrimitiveLeafKind ==
    [void |-> "TS_VOID", any |-> "TS_ANY", boolean |-> "TS_BOOLEAN",
     bigint |-> "TS_BIGINT", never |-> "TS_NEVER", number |-> "TS_NUMBER",
     object |-> "TS_OBJECT", string |-> "TS_STRING", symbol |-> "TS_SYMBOL",
     unknown |-> "TS_UNKNOWN", undefined |-> "TS_UNDEFINED"]

AtPrimitiveWord(i) ==
    /\ TokAt(i).kind \in IdentClassKinds
    /\ TokAt(i).src \in DOMAIN PrimitiveLeafKind

C9_PrimitiveLeaf ==
    (/\ Returned("ts_non_array_type")
     /\ AtPrimitiveWord(last.frame.pos0)
     /\ TokAt(last.frame.pos0 + 1).kind # ".")
    => /\ last.pos1 = last.frame.pos0 + 1
       /\ last.ret.some
       /\ last.ret.cm = last.frame.events0 + 1
       /\ last.events1 = last.frame.events0 + 3
       /\ events[last.ret.cm].ev = "Start"
       /\ events[last.ret.cm].kind = PrimitiveLeafKind[TokAt(last.frame.pos0).src]
       /\ events[last.ret.cm + 1].ev = "Token"
       /\ events[last.ret.cm + 1].src = TokAt(last.frame.pos0).src
       /\ events[last.ret.cm + 2] =
            FinishEv(PrimitiveLeafKind[TokAt(last.frame.pos0).src])
       /\ LastDiags = <<>>

\* the input word string, not followed by a dot, came back as a TS_STRING leaf
C9_Witness ==
    /\ Returned("ts_non_array_type")
    /\ status = "returned"
    /\ TokAt(last.frame.pos0) = Tok("ident", "string", FALSE)
    /\ TokAt(last.frame.pos0 + 1).kind # "."
    /\ last.ret.some
    /\ events[last.ret.cm].kind = "TS_STRING"

(***************************************************************************)
(* C10  Primitive keyword used as a namespace.  At an identifier-class     *)
(* token whose text is a primitive type keyword and that is followed by a  *)
(* dot, ts_non_array_type returns the TS_TYPE_REF node of ts_type_ref, and *)
(* no diagnostic about a missing type name is recorded.                    *)
(***************************************************************************)
\* the diagnostics ts_type_name can record
TypeNameDiags ==
    { "expected a TypeScript type name, but instead found " \o t.src :
        t \in Alphabet \cup { EOFTok } }

C10_PrimitiveAsNamespace ==
    (/\ Returned("ts_non_array_type")
     /\ TokAt(last.frame.pos0).kind \in IdentClassKinds
     /\ PrimitiveKind(TokAt(last.frame.pos0).src) # "ERROR"
     /\ TokAt(last.frame.pos0 + 1).kind = ".")
    => /\ last.ret.some
       /\ events[last.ret.cm].kind = "TS_TYPE_REF"
       /\ \A i \in 1..Len(LastDiags) : LastDiags[i] \notin TypeNameDiags

(***************************************************************************)
(* C11  Unary minus literal type.  At a minus ts_non_array_type always     *)
(* returns a TS_LITERAL node.  Before a NUMBER it consumes the two tokens, *)
(* puts the number under a LITERAL child and records no diagnostic;        *)
(* otherwise it consumes the minus alone, records one diagnostic, leaves   *)
(* the next token where it is and invokes no recovery.                     *)
(***************************************************************************)
\* the events the call that returned last appended to the log
LastEvents == SubSeq(events, last.frame.events0 + 1, last.events1)

C11_UnaryMinus ==
    (Returned("ts_non_array_type") /\ TokAt(last.frame.pos0).kind = "-")
    => /\ last.ret.some
       /\ last.ret.cm = last.frame.events0 + 1
       /\ events[last.ret.cm].ev = "Start"
       /\ events[last.ret.cm].kind = "TS_LITERAL"
       /\ events[last.events1] = FinishEv("TS_LITERAL")
       /\ IF TokAt(last.frame.pos0 + 1).kind = "NUMBER"
          THEN /\ last.pos1 = last.frame.pos0 + 2
               /\ LastDiags = <<>>
               /\ LastEvents =
                    << [StartEv EXCEPT !.kind = "TS_LITERAL"],
                       TokenEv("-", "-"),
                       [StartEv EXCEPT !.kind = "LITERAL"],
                       TokenEv("NUMBER", TokAt(last.frame.pos0 + 1).src),
                       FinishEv("LITERAL"),
                       FinishEv("TS_LITERAL") >>
          ELSE /\ last.pos1 = last.frame.pos0 + 1
               /\ LastDiags = << "expected NUMBER" >>
               /\ LastEvents =
                    << [StartEv EXCEPT !.kind = "TS_LITERAL"],
                       TokenEv("-", "-"),
                       ErrorEv(last.diags1),
                       FinishEv("TS_LITERAL") >>

\* a minus before a token that is not a NUMBER: the node, one diagnostic, and
\* the token after the minus still to be read
C11_Witness ==
    /\ Returned("ts_non_array_type")
    /\ status = "returned"
    /\ TokAt(last.frame.pos0).kind = "-"
    /\ TokAt(last.frame.pos0 + 1).kind \notin { "NUMBER", "EOF" }
    /\ last.ret.some
    /\ pos = last.frame.pos0 + 1
    /\ Len(LastDiags) = 1

(***************************************************************************)
(* C12  Parenthesized type.  At an opening parenthesis ts_non_array_type   *)
(* parses the inner type through ts_type and returns a TS_PAREN node,      *)
(* whether or not the inner type gave a node and whether or not the        *)
(* closing parenthesis is there; the call terminates.                      *)
(***************************************************************************)
C12_ParenReturns ==
    /\ \A i \in 1..Len(stack) :
        (stack[i].fn = "ts_non_array_type"
            /\ TokAt(stack[i].pos0).kind = "(")
        => status # "panic"
    /\ (Returned("ts_non_array_type") /\ TokAt(last.frame.pos0).kind = "(")
       => /\ last.ret.some
          /\ events[last.ret.cm].kind = "TS_PAREN"

(***************************************************************************)
(* C13  Recovery set of the default arm.  The set ts_non_array_type hands  *)
(* to recovery when it reports that a type was expected holds every token  *)
(* kind that an arm other than the default one matches.                    *)
(***************************************************************************)
TypeStartKinds ==
    { "ident", "void", "yield", "null", "await", "break", "NUMBER", "STRING",
      "TRUE_KW", "FALSE_KW", "REGEX", "BACKTICK", "-", "import", "this",
      "typeof", "{", "[", "(" }

C13_SetCoversArms ==
    (/\ Running("ts_non_array_type", "entry")
     /\ Cur(P).kind \notin DispatchedKinds)
    => /\ TypeStartKinds \subseteq ExpectedTypeRecoverySet
       /\ DispatchedKinds \subseteq ExpectedTypeRecoverySet

(***************************************************************************)
(* C14  Failure is always diagnosed.  When one of the productions returns  *)
(* no node, at least one diagnostic was recorded during the call.          *)
(***************************************************************************)
Productions ==
    { "ts_non_array_type", "ts_type_ref", "ts_entity_name", "ts_type_name",
      "ts_this_predicate" }

C14_FailureDiagnosed ==
    (last.frame.fn \in Productions /\ ~last.ret.some)
    => last.diags1 > last.frame.diags0

\* ts_this_predicate found no this: no node and the diagnostic of p.expect
C14_Witness ==
    /\ Returned("ts_this_predicate")
    /\ ~last.ret.some
    /\ LastDiags = << "expected this" >>

(***************************************************************************)
(* C15  This-predicate speculation.  ts_this_predicate returns a           *)
(* TS_PREDICATE node exactly when it consumed a token.  When it consumed   *)
(* none its marker is abandoned, no node is returned, the cursor is where  *)
(* it was and the call left no StartNode, FinishNode or Token entry in the *)
(* event log.                                                              *)
(***************************************************************************)
NodeOrTokenEvents == { "Start", "Finish", "Token" }

C15_Speculation ==
    /\ \A i \in 1..Len(stack) :
        (stack[i].fn = "ts_this_predicate" /\ pos > stack[i].pos0)
        => status # "panic"
    /\ Returned("ts_this_predicate")
       => /\ last.ret.some <=> last.pos1 > last.frame.pos0
          /\ last.ret.some
             => /\ last.ret.cm = last.frame.events0 + 1
                /\ events[last.ret.cm].ev = "Start"
                /\ events[last.ret.cm].kind = "TS_PREDICATE"
          /\ last.pos1 = last.frame.pos0
             => /\ ~last.ret.some
                /\ \E k \in last.frame.mops0 + 1 .. last.mops1 :
                     mops[k] = << "abandon", last.frame.events0 + 1 >>
                /\ \A k \in 1..Len(LastEvents) :
                     LastEvents[k].ev \notin NodeOrTokenEvents

(***************************************************************************)
(* C16  Erroneous access modifier.  When ts_type_ref starts at public,     *)
(* private, protected or readonly, that token alone goes into an ERROR     *)
(* node, the one diagnostic about parameter properties is recorded and no  *)
(* recovery runs for it; when the entity name that follows succeeds, a     *)
(* TS_TYPE_REF node around the ERROR node and the entity name is returned. *)
(***************************************************************************)
C16_ModifierThenName ==
    /\ (/\ stack # <<>>
        /\ Top.fn = "ts_type_ref"
        /\ Top.pc = "entity"
        /\ TokAt(Top.pos0).src \in Modifiers
        /\ ret.some)
       => status # "panic"
    /\ (Returned("ts_type_ref") /\ TokAt(last.frame.pos0).src \in Modifiers)
       => /\ Len(LastEvents) >= 5
          /\ LastEvents[1].ev = "Start"
          /\ SubSeq(LastEvents, 2, 5) =
               << [StartEv EXCEPT !.kind = "ERROR"],
                  TokenEv(TokAt(last.frame.pos0).kind, TokAt(last.frame.pos0).src),
                  FinishEv("ERROR"),
                  ErrorEv(last.frame.diags0 + 1) >>
          /\ LastDiags[1] =
               "a parameter property is only allowed in a constructor implementation"
          /\ last.ret.some
             => /\ last.ret.cm = last.frame.events0 + 1
                /\ events[last.ret.cm].kind = "TS_TYPE_REF"
                /\ events[last.events1] = FinishEv("TS_TYPE_REF")

(***************************************************************************)
(* C17  Disambiguation of this.  At this, ts_non_array_type hands over to  *)
(* ts_this_predicate exactly when the text of the next token is "is";      *)
(* otherwise it consumes this alone, returns a TS_THIS leaf and records    *)
(* no diagnostic.                                                          *)
(***************************************************************************)
C17_ThisDisambiguation ==
    /\ \A i \in 1..Len(stack) :
        (/\ stack[i].fn = "ts_non_array_type"
         /\ stack[i].pc = "tail"
         /\ TokAt(stack[i].pos0).kind = "this")
        => /\ TokAt(stack[i].pos0 + 1).src = "is"
           /\ i < Len(stack)
              => /\ stack[i + 1].fn = "ts_this_predicate"
                 /\ stack[i + 1].pos0 = stack[i].pos0
    /\ (Returned("ts_non_array_type") /\ TokAt(last.frame.pos0).kind = "this")
       => IF TokAt(last.frame.pos0 + 1).src = "is"
          THEN /\ last.ret.some
               /\ events[last.ret.cm].kind = "TS_PREDICATE"
          ELSE /\ last.pos1 = last.frame.pos0 + 1
               /\ last.ret = Some(last.frame.events0 + 1)
               /\ LastEvents =
                    << [StartEv EXCEPT !.kind = "TS_THIS"],
                       TokenEv("this", TokAt(last.frame.pos0).src),
                       FinishEv("TS_THIS") >>
               /\ LastDiags = <<>>

\* this before a token that is not "is": the leaf, with that token still to
\* be read
C17_Witness ==
    /\ Returned("ts_non_array_type")
    /\ TokAt(last.frame.pos0).kind = "this"
    /\ TokAt(last.frame.pos0 + 1).kind # "EOF"
    /\ last.ret.some
    /\ events[last.ret.cm].kind = "TS_THIS"
    /\ last.pos1 = last.frame.pos0 + 1

(***************************************************************************)
(* C18  Recovery at a resynchronization point.  When ts_type_name fails at *)
(* a token of the recovery set in force (the set of the caller, or the     *)
(* base set when none is given), one diagnostic is recorded, the cursor    *)
(* stays, the log gains no Token or node event, and no node is returned.   *)
(***************************************************************************)
\* ts_type_name, called at position i with allow_reserved a, takes the token
TypeNameTakes(i, a) ==
    TokAt(i).kind = "ident" \/ (IsKeyword(TokAt(i).kind) /\ a)

C18_RecoveryAtSyncPoint ==
    (/\ Returned("ts_type_name")
     /\ ~TypeNameTakes(last.frame.pos0, last.frame.allow)
     /\ TokAt(last.frame.pos0).kind
            \in UnwrapOr(last.frame.set, BASE_TS_RECOVERY_SET))
    => /\ ~last.ret.some
       /\ last.pos1 = last.frame.pos0
       /\ Len(LastDiags) = 1
       /\ LastDiags[1] \in TypeNameDiags
       /\ LastEvents = << ErrorEv(last.diags1) >>

\* the caller gave its own set and the token is one of it, not of the base set
C18_Witness ==
    /\ Returned("ts_type_name")
    /\ last.frame.set.some
    /\ TokAt(last.frame.pos0).kind \in UnwrapOr(last.frame.set, {})
    /\ TokAt(last.frame.pos0).kind \notin BASE_TS_RECOVERY_SET
    /\ ~last.ret.some
    /\ last.pos1 = last.frame.pos0
    /\ last.diags1 = last.frame.diags0 + 1

(***************************************************************************)
(* C19  The default arm always makes progress.  The token the default arm  *)
(* of ts_non_array_type sees is never in the set it hands to recovery, so  *)
(* with input left it consumes at least one token into an ERROR node       *)
(* before it returns no node; the cursor stays only at the end of input.   *)
(***************************************************************************)
C19_DefaultArmProgress ==
    (/\ Returned("ts_non_array_type")
     /\ TokAt(last.frame.pos0).kind \notin DispatchedKinds)
    => /\ TokAt(last.frame.pos0).kind \notin ExpectedTypeRecoverySet
       /\ ~last.ret.some
       /\ LastDiags = << "expected a type" >>
       /\ last.pos1 = last.frame.pos0 => TokAt(last.frame.pos0).kind = "EOF"
       /\ TokAt(last.frame.pos0).kind # "EOF"
          => /\ last.pos1 > last.frame.pos0
             /\ Len(LastEvents) >= 4
             /\ SubSeq(LastEvents, 1, 4) =
                  << ErrorEv(last.diags1),
                     [StartEv EXCEPT !.kind = "ERROR"],
                     TokenEv(TokAt(last.frame.pos0).kind, TokAt(last.frame.pos0).src),
                     FinishEv("ERROR") >>

\* the default arm met a token with input left and wrapped it in an ERROR node
C19_Witness ==
    /\ Returned("ts_non_array_type")
    /\ TokAt(last.frame.pos0).kind \notin DispatchedKinds \cup { "EOF" }
    /\ ~last.ret.some
    /\ last.pos1 > last.frame.pos0
    /\ events[last.frame.events0 + 4] = FinishEv("ERROR")

====
